---- MODULE Spec2Model ----
(***************************************************************************)
(* ReportExporter (export-utils) of the Smart Report Generator.            *)
(*                                                                         *)
(* batchExport, the batch orchestrator: the async function and the         *)
(* per-report tasks it creates are modelled on the JavaScript event loop:  *)
(* one piece of code runs at a time ("running") until it suspends at an    *)
(* await or completes; timers and export promises settle only while the    *)
(* loop is idle.                                                           *)
(*                                                                         *)
(* The single exports and exportCombinedReport: the page loop of           *)
(* exportToPDF, replaceVariables, the Markdown and Word renderers and the  *)
(* functions that build the combined report are applied to inputs drawn    *)
(* from bounded sets, each in a specification of its own.                  *)
(***************************************************************************)
EXTENDS Integers, Sequences, FiniteSets, TLC

\* ---- bounds of the model ------------------------------------------------
MaxReports == 2        \* reports.length ranges over 0..MaxReports
MaxBatchSize == 2      \* options.batchSize ranges over {-1, 0} and 1..MaxBatchSize
MaxDelay == 1          \* options.delayBetweenExports ranges over 0..MaxDelay (time units)
MaxRewind == 1         \* a negative batchSize takes i below 0 for ever; followed down to -MaxRewind
MaxChunkReports == 12  \* partition specification: reports.length ranges over 0..MaxChunkReports
MaxChunkBatch == 6     \* partition specification: batchSize ranges over 1..MaxChunkBatch
MaxCanvasWidth == 42   \* page loop: canvas.width ranges over 1..MaxCanvasWidth
MaxCanvasHeight == 120 \* page loop: canvas.height ranges over 0..MaxCanvasHeight
MaxVariables == 2      \* replaceVariables: variables.length ranges over 0..MaxVariables
MaxCustomSections == 2 \* renderers: customSections.length ranges over 0..MaxCustomSections
MaxOrder == 2          \* renderers: a custom section's order ranges over 1..MaxOrder
MaxCombined == 2       \* combined highlights: reports.length ranges over 0..MaxCombined
MaxPeriodReports == 2  \* combined period: reports.length ranges over 0..MaxPeriodReports
MaxTime == 1           \* combined period: timestamps range over 0..MaxTime
MaxTitleLength == 2    \* file names: titles of up to MaxTitleLength characters, and one sample
MaxSectionGap == 40    \* Word title: styling.spacing.sectionGap ranges over 0..MaxSectionGap
MaxHangReports == 3    \* pending exports: reports.length ranges over 0..MaxHangReports
MaxPattern == 2        \* validation: the titles and contents of a list repeat with this period
MaxExports == 2        \* export dialog: handleExport is invoked up to MaxExports times

VARIABLES
  reports,              \* the reports argument (array of ReportData)
  format,               \* options.format
  batchSize,            \* options.batchSize after defaulting
  delayBetweenExports,  \* options.delayBetweenExports after defaulting
  onProgress,           \* how the caller's onProgress behaves: absent / returns / throws
  onError,              \* how the caller's onError behaves: absent / returns / throws
  result,               \* the BatchExportResult accumulator
  i,                    \* loop variable of the for loop
  batch,                \* reports.slice(i, i + batchSize)
  batchIndex,           \* position of batch.map in the current batch
  pc,                   \* position of batchExport itself
  running,              \* what the event loop is executing
  tasks,                \* the async map callbacks created so far, by globalIndex
  chunks,               \* history: every non-empty batch the loop has formed
  onProgressCalls,      \* history: argument triples onProgress was invoked with
  onErrorCalls,         \* history: invocations of onError, in order
  step,                 \* position of the single export / combine function under study
  canvas,               \* exportToPDF: the canvas html2canvas returned
  heightLeft,           \* exportToPDF: heightLeft
  position,             \* exportToPDF: position
  pdf,                  \* exportToPDF: the pages of the jsPDF document, by the offset of the image
  content,              \* replaceVariables: content
  variables,            \* replaceVariables: variables
  replaced,             \* replaceVariables: the string returned
  singleReport,         \* exportToMarkdown / exportToWord: report
  template,             \* exportToMarkdown / exportToWord: template
  markdown,             \* exportToMarkdown: markdown
  children,             \* exportToWord: children
  combinedReport,       \* exportCombinedReport: combinedReport
  errors,               \* validateReportsForExport: errors
  filename,             \* the name handed to pdf.save / saveAs
  exportDialog,         \* ExportDialog: its state and what handleExport has done
  element,              \* exportToPDF: the element argument
  documentBody          \* exportToPDF: the children of document.body

inputs == <<reports, format, batchSize, delayBetweenExports, onProgress, onError>>

batchVars == <<inputs, result, i, batch, batchIndex, pc, running, tasks, chunks,
               onProgressCalls, onErrorCalls>>

pdfVars == <<canvas, heightLeft, position, pdf>>

replaceVars == <<content, variables, replaced>>

renderVars == <<singleReport, template, markdown, children>>

uiVars == <<errors, filename, exportDialog, element, documentBody>>

exportVars == <<step, pdfVars, replaceVars, renderVars, combinedReport, uiVars>>

vars == <<batchVars, exportVars>>

\* ---- values -------------------------------------------------------------
Min(a, b) == IF a < b THEN a ELSE b
Max(a, b) == IF a > b THEN a ELSE b

\* A ReportData value; only the fields batchExport reads are kept.
ReportData(g) == [_id |-> <<"id", g>>, title |-> <<"title", g>>]

ReportList(n) == [k \in 1..n |-> ReportData(k - 1)]

\* "html" stands for any string that is none of the three supported formats.
Formats == {"pdf", "word", "markdown", "html"}

BatchSizes == {-1, 0} \cup (1..MaxBatchSize)

CallbackKinds == {"absent", "returns", "throws"}

NoError == [isError |-> FALSE, message |-> "none"]

Error(msg) == [isError |-> TRUE, message |-> msg]

\* What a throwing callback throws.  A callback may throw anything; a value that
\* is not an Error takes the branch of errorMessage that no export error takes.
CallbackThrows == {[isError |-> FALSE, message |-> "thrown value"]}

\* undefined: an optional argument or field that is absent
Undefined == <<"undefined">>

Idle == <<"idle">>
Main == <<"main">>
Task(g) == <<"task", g>>

\* slice with the end index taken as inclusive
SliceInclusive(arr, start, end) ==
  LET len == Len(arr)
      from == IF start < 0 THEN Max(len + start, 0) ELSE Min(start, len)
      to == IF end + 1 < 0 THEN Max(len + end + 1, 0) ELSE Min(end + 1, len)
  IN SubSeq(arr, from + 1, to)

\* Array.prototype.slice(start, end) on a 1-based sequence holding a 0-based array.
Slice(arr, start, end) ==
  LET len == Len(arr)
      from == IF start < 0 THEN Max(len + start, 0) ELSE Min(start, len)
      to == IF end < 0 THEN Max(len + end, 0) ELSE Min(end, len)
  IN SubSeq(arr, from + 1, to)

\* The error a failing single export throws (the catch blocks of exportTo*).
ExportFailure(f) ==
  CASE f = "pdf" -> Error("Failed to export PDF. Please try again.")
    [] f = "word" -> Error("Failed to export Word document. Please try again.")
    [] f = "markdown" -> Error("Failed to export Markdown. Please try again.")

\* What the try block of a single export may throw: an error of html2canvas or
\* jsPDF, of Packer, of saveAs or of the renderer itself.
Thrown(f) ==
  CASE f = "pdf" -> {Error("Unable to find element in cloned iframe")}
    [] f = "word" -> {Error("Invalid string length")}
    [] f = "markdown" -> {Error("Cannot read properties of undefined")}

\* a catch block that lets the original error through
ExportCatchRethrow(f, original) == original

\* catch (error) { console.error('... export failed:', error); throw new Error('Failed to export ...') }
ExportCatch(f, original) == ExportFailure(f)

\* The default branch of the switch.
UnsupportedFormat(f) == Error("Unsupported format: html")

\* error instanceof Error ? error.message : 'Unknown error'
ErrorMessage(e) == IF e.isError THEN e.message ELSE "Unknown error"

\* the delay applied to every report, the first included
NeedsDelayAll(globalIndex) == delayBetweenExports > 0

\* globalIndex > 0 && delayBetweenExports > 0
NeedsDelay(globalIndex) == globalIndex > 0 /\ delayBetweenExports > 0

\* the arguments of onProgress?.(globalIndex, reports.length, report.title)
StartingArgs(globalIndex, report) == <<globalIndex, Len(reports), report.title>>

\* the finished notification passing globalIndex, as the starting one does
FinishedArgsSameIndex(globalIndex, report) == <<globalIndex, Len(reports), report.title>>

\* the arguments of onProgress?.(globalIndex + 1, reports.length, report.title)
FinishedArgs(globalIndex, report) == <<globalIndex + 1, Len(reports), report.title>>

\* a switch whose last case doubles as the default
SwitchCaseFallback(f) == IF f \in {"pdf", "word"} THEN f ELSE "markdown"

\* The case of the switch a format selects; "default" is the default branch.
SwitchCase(f) == IF f \in {"pdf", "word", "markdown"} THEN f ELSE "default"

\* a catch block that rethrows
AfterCatchRethrow(onErrorThrew) == "rejected"

\* How the task's promise settles after the catch block: the block has no
\* try of its own, so what onError throws rejects the promise.
AfterCatch(onErrorThrew) == IF onErrorThrew THEN "rejected" ELSE "fulfilled"

\* Promise.all(batchPromises) without the await: the loop goes on at once.
NotAwaited(ts, indices) == TRUE

\* Promise.all(batchPromises) fulfils once every promise has fulfilled.
AllFulfilled(ts, indices) == \A g \in indices : ts[g].pc = "fulfilled"

\* Promise.all(batchPromises) rejects once one promise has rejected.
AnyRejected(ts, indices) == \E g \in indices : ts[g].pc = "rejected"

\* the increment of the successful counter left out
RecordSuccessLost(res) == res

\* result.successful++
RecordSuccess(res) == [res EXCEPT !.successful = @ + 1]

\* the push onto result.errors left out
RecordFailureNoEntry(res, report, e) == [res EXCEPT !.failed = @ + 1]

\* result.failed++; result.errors.push({ reportId: report._id, error: errorMessage })
RecordFailure(res, report, e) ==
  [res EXCEPT !.failed = @ + 1,
              !.errors = Append(@, [reportId |-> report._id, error |-> ErrorMessage(e)])]

\* ---- initial state ------------------------------------------------------
InitCall ==
  /\ result = [successful |-> 0, failed |-> 0, errors |-> <<>>]
  /\ i = 0
  /\ batch = <<>>
  /\ batchIndex = 0
  /\ pc = "for"
  /\ running = Main
  /\ tasks = <<>>
  /\ chunks = <<>>
  /\ onProgressCalls = {}
  /\ onErrorCalls = <<>>

\* No page loop, substitution, renderer or combine call is under way.
NoPdf == canvas = Undefined /\ heightLeft = 0 /\ position = 0 /\ pdf = <<>>

NoReplace == content = <<>> /\ variables = <<>> /\ replaced = <<>>

NoRender == singleReport = Undefined /\ template = Undefined /\ markdown = <<>> /\ children = <<>>

NoCombine == combinedReport = Undefined

NoUi ==
  /\ errors = <<>> /\ filename = Undefined /\ exportDialog = Undefined
  /\ element = Undefined /\ documentBody = {}

NoExport == step = "none" /\ NoPdf /\ NoReplace /\ NoRender /\ NoCombine /\ NoUi

\* No batch is under way.
NoBatchOptions ==
  /\ format = "markdown"
  /\ batchSize = 1
  /\ delayBetweenExports = 0
  /\ onProgress = "absent"
  /\ onError = "absent"
  /\ InitCall

NoBatch == reports = <<>> /\ NoBatchOptions

Init ==
  /\ \E n \in 0..MaxReports : reports = ReportList(n)
  /\ format \in Formats
  /\ batchSize \in BatchSizes
  /\ delayBetweenExports \in 0..MaxDelay
  /\ onProgress \in CallbackKinds
  /\ onError \in CallbackKinds
  /\ InitCall
  /\ NoExport

\* ---- the event loop -----------------------------------------------------
\* A task that suspends or completes gives control back to batch.map while the
\* map is still creating tasks, and to the event loop otherwise.
Yield == IF pc = "map" THEN Main ELSE Idle

NewTask(report, globalIndex) ==
  [report |-> report,
   pc |-> IF NeedsDelay(globalIndex) THEN "timer" ELSE "onProgressStart",
   delayed |-> NeedsDelay(globalIndex),
   age |-> 0,
   chunk |-> Len(chunks),
   error |-> NoError,
   cause |-> NoError,
   renderer |-> "none",
   outcome |-> "none",
   counted |-> FALSE]

\* ---- batchExport: the for loop -------------------------------------------
\* for (let i = 0; i < reports.length; ...) { const batch = reports.slice(i, i + batchSize)
ForTest ==
  /\ pc = "for" /\ running = Main
  /\ IF i < Len(reports)
       THEN /\ batch' = Slice(reports, i, i + batchSize)
            /\ batchIndex' = 0
            /\ chunks' = IF batch' = <<>> THEN chunks ELSE Append(chunks, batch')
            /\ pc' = "map"
            /\ UNCHANGED running
       ELSE /\ pc' = "done"
            /\ running' = Idle
            /\ UNCHANGED <<batch, batchIndex, chunks>>
  /\ UNCHANGED <<exportVars, inputs, result, i, tasks, onProgressCalls, onErrorCalls>>

\* batch.map(async (report, batchIndex) => { const globalIndex = i + batchIndex; ...
\* The callback runs synchronously up to its first await.
MapCall ==
  /\ pc = "map" /\ running = Main
  /\ batchIndex < Len(batch)
  /\ LET globalIndex == i + batchIndex
         task == NewTask(batch[batchIndex + 1], globalIndex)
     IN /\ tasks' = (globalIndex :> task) @@ tasks
        /\ running' = IF task.pc = "timer" THEN Main ELSE Task(globalIndex)
  /\ batchIndex' = batchIndex + 1
  /\ UNCHANGED <<exportVars, inputs, result, i, batch, pc, chunks, onProgressCalls, onErrorCalls>>

\* await Promise.all(batchPromises): batchExport suspends
MapDone ==
  /\ pc = "map" /\ running = Main
  /\ batchIndex = Len(batch)
  /\ pc' = "await"
  /\ running' = Idle
  /\ UNCHANGED <<exportVars, inputs, result, i, batch, batchIndex, tasks, chunks,
                 onProgressCalls, onErrorCalls>>

\* a Promise.all that looks at the first promise only
FirstOfBatch == {i + b : b \in 0..Min(0, Len(batch) - 1)}

\* the promises handed to Promise.all: one per report of the batch
BatchIndices == {i + b : b \in 0..(Len(batch) - 1)}

\* Promise.all fulfils when every promise of the batch has; the loop goes on.
AwaitFulfilled ==
  /\ pc = "await" /\ running = Idle
  /\ AllFulfilled(tasks, BatchIndices)
  /\ batchSize >= 0 \/ i + batchSize >= -MaxRewind
  /\ i' = i + batchSize
  /\ pc' = "for"
  /\ running' = Main
  /\ UNCHANGED <<exportVars, inputs, result, batch, batchIndex, tasks, chunks,
                 onProgressCalls, onErrorCalls>>

\* Promise.all rejects as soon as one promise of the batch has; batchExport throws.
AwaitRejected ==
  /\ pc = "await" /\ running = Idle
  /\ AnyRejected(tasks, BatchIndices)
  /\ pc' = "rejected"
  /\ UNCHANGED <<exportVars, inputs, result, i, batch, batchIndex, running, tasks, chunks,
                 onProgressCalls, onErrorCalls>>

\* ---- one task: the async callback of batch.map ---------------------------
SetTask(g, t) == tasks' = [tasks EXCEPT ![g] = t]

\* Time passes while the loop is idle and a setTimeout is pending.
Tick ==
  /\ running = Idle
  /\ \E g \in DOMAIN tasks : tasks[g].pc = "timer" /\ tasks[g].age < delayBetweenExports
  /\ tasks' = [g \in DOMAIN tasks |->
                 IF tasks[g].pc = "timer" /\ tasks[g].age < delayBetweenExports
                   THEN [tasks[g] EXCEPT !.age = @ + 1]
                   ELSE tasks[g]]
  /\ UNCHANGED <<exportVars, inputs, result, i, batch, batchIndex, pc, running, chunks,
                 onProgressCalls, onErrorCalls>>

\* setTimeout(resolve, delayBetweenExports) fires; the task resumes.
TimerFire(g) ==
  /\ running = Idle
  /\ tasks[g].pc = "timer"
  /\ tasks[g].age >= delayBetweenExports
  /\ SetTask(g, [tasks[g] EXCEPT !.pc = "onProgressStart"])
  /\ running' = Task(g)
  /\ UNCHANGED <<exportVars, inputs, result, i, batch, batchIndex, pc, chunks,
                 onProgressCalls, onErrorCalls>>

\* onProgress?.(globalIndex, reports.length, report.title)
OnProgressStart(g) ==
  /\ running = Task(g)
  /\ tasks[g].pc = "onProgressStart"
  /\ \/ /\ onProgress = "absent"
        /\ SetTask(g, [tasks[g] EXCEPT !.pc = "switch"])
        /\ UNCHANGED onProgressCalls
     \/ /\ onProgress \in {"returns", "throws"}
        /\ onProgressCalls' = onProgressCalls \cup {StartingArgs(g, tasks[g].report)}
        /\ SetTask(g, [tasks[g] EXCEPT !.pc = "switch"])
     \/ /\ onProgress = "throws"
        /\ onProgressCalls' = onProgressCalls \cup {StartingArgs(g, tasks[g].report)}
        /\ \E e \in CallbackThrows :
             SetTask(g, [tasks[g] EXCEPT !.pc = "catch", !.error = e])
  /\ UNCHANGED <<exportVars, inputs, result, i, batch, batchIndex, pc, running, chunks, onErrorCalls>>

\* switch (format): pdf and word await the export's promise
SwitchAsync(g) ==
  /\ running = Task(g)
  /\ tasks[g].pc = "switch"
  /\ SwitchCase(format) \in {"pdf", "word"}
  /\ SetTask(g, [tasks[g] EXCEPT !.pc = "exporting", !.renderer = SwitchCase(format)])
  /\ running' = Yield
  /\ UNCHANGED <<exportVars, inputs, result, i, batch, batchIndex, pc, chunks,
                 onProgressCalls, onErrorCalls>>

\* case 'markdown': exportToMarkdown is synchronous; it returns or throws
SwitchMarkdown(g) ==
  /\ running = Task(g)
  /\ tasks[g].pc = "switch"
  /\ SwitchCase(format) = "markdown"
  /\ \/ SetTask(g, [tasks[g] EXCEPT !.pc = "count", !.renderer = "markdown", !.outcome = "ok"])
     \/ \E original \in Thrown("markdown") :
          SetTask(g, [tasks[g] EXCEPT !.pc = "catch", !.renderer = "markdown", !.outcome = "fail",
                                      !.cause = original,
                                      !.error = ExportCatch("markdown", original)])
  /\ UNCHANGED <<exportVars, inputs, result, i, batch, batchIndex, pc, running, chunks,
                 onProgressCalls, onErrorCalls>>

\* default: throw new Error(`Unsupported format: ${format}`)
SwitchDefault(g) ==
  /\ running = Task(g)
  /\ tasks[g].pc = "switch"
  /\ SwitchCase(format) = "default"
  /\ SetTask(g, [tasks[g] EXCEPT !.pc = "catch", !.error = UnsupportedFormat(format)])
  /\ UNCHANGED <<exportVars, inputs, result, i, batch, batchIndex, pc, running, chunks,
                 onProgressCalls, onErrorCalls>>

\* The promise of exportToPDF / exportToWord settles; the task resumes.
ExportSettle(g) ==
  /\ running = Idle
  /\ tasks[g].pc = "exporting"
  /\ \/ SetTask(g, [tasks[g] EXCEPT !.pc = "count", !.outcome = "ok"])
     \/ \E original \in Thrown(tasks[g].renderer) :
          SetTask(g, [tasks[g] EXCEPT !.pc = "catch", !.outcome = "fail",
                                      !.cause = original,
                                      !.error = ExportCatch(tasks[g].renderer, original)])
  /\ running' = Task(g)
  /\ UNCHANGED <<exportVars, inputs, result, i, batch, batchIndex, pc, chunks,
                 onProgressCalls, onErrorCalls>>

\* result.successful++
CountSuccess(g) ==
  /\ running = Task(g)
  /\ tasks[g].pc = "count"
  /\ result' = RecordSuccess(result)
  /\ SetTask(g, [tasks[g] EXCEPT !.pc = "onProgressDone", !.counted = TRUE])
  /\ UNCHANGED <<exportVars, inputs, i, batch, batchIndex, pc, running, chunks,
                 onProgressCalls, onErrorCalls>>

\* onProgress?.(globalIndex + 1, reports.length, report.title)
OnProgressDone(g) ==
  /\ running = Task(g)
  /\ tasks[g].pc = "onProgressDone"
  /\ \/ /\ onProgress = "absent"
        /\ SetTask(g, [tasks[g] EXCEPT !.pc = "fulfilled"])
        /\ running' = Yield
        /\ UNCHANGED onProgressCalls
     \/ /\ onProgress \in {"returns", "throws"}
        /\ onProgressCalls' = onProgressCalls \cup {FinishedArgs(g, tasks[g].report)}
        /\ SetTask(g, [tasks[g] EXCEPT !.pc = "fulfilled"])
        /\ running' = Yield
     \/ /\ onProgress = "throws"
        /\ onProgressCalls' = onProgressCalls \cup {FinishedArgs(g, tasks[g].report)}
        /\ \E e \in CallbackThrows :
             SetTask(g, [tasks[g] EXCEPT !.pc = "catch", !.error = e])
        /\ UNCHANGED running
  /\ UNCHANGED <<exportVars, inputs, result, i, batch, batchIndex, pc, chunks, onErrorCalls>>

\* catch (error) { ... result.failed++; result.errors.push({reportId, error}) ...
Catch(g) ==
  /\ running = Task(g)
  /\ tasks[g].pc = "catch"
  /\ result' = RecordFailure(result, tasks[g].report, tasks[g].error)
  /\ SetTask(g, [tasks[g] EXCEPT !.pc = "onError"])
  /\ UNCHANGED <<exportVars, inputs, i, batch, batchIndex, pc, running, chunks,
                 onProgressCalls, onErrorCalls>>

\* onError?.(report._id, error instanceof Error ? error : new Error(errorMessage))
OnError(g) ==
  /\ running = Task(g)
  /\ tasks[g].pc = "onError"
  /\ LET call == [reportId |-> tasks[g].report._id,
                  error |-> Error(ErrorMessage(tasks[g].error))]
     IN \/ /\ onError = "absent"
           /\ SetTask(g, [tasks[g] EXCEPT !.pc = AfterCatch(FALSE)])
           /\ UNCHANGED onErrorCalls
        \/ /\ onError \in {"returns", "throws"}
           /\ onErrorCalls' = Append(onErrorCalls, call)
           /\ SetTask(g, [tasks[g] EXCEPT !.pc = AfterCatch(FALSE)])
        \/ /\ onError = "throws"
           /\ onErrorCalls' = Append(onErrorCalls, call)
           /\ SetTask(g, [tasks[g] EXCEPT !.pc = AfterCatch(TRUE)])
  /\ running' = Yield
  /\ UNCHANGED <<exportVars, inputs, result, i, batch, batchIndex, pc, chunks, onProgressCalls>>

Next ==
  \/ ForTest
  \/ MapCall
  \/ MapDone
  \/ AwaitFulfilled
  \/ AwaitRejected
  \/ Tick
  \/ \E g \in DOMAIN tasks : TimerFire(g)
  \/ \E g \in DOMAIN tasks : OnProgressStart(g)
  \/ \E g \in DOMAIN tasks : SwitchAsync(g)
  \/ \E g \in DOMAIN tasks : SwitchMarkdown(g)
  \/ \E g \in DOMAIN tasks : SwitchDefault(g)
  \/ \E g \in DOMAIN tasks : ExportSettle(g)
  \/ \E g \in DOMAIN tasks : CountSuccess(g)
  \/ \E g \in DOMAIN tasks : OnProgressDone(g)
  \/ \E g \in DOMAIN tasks : Catch(g)
  \/ \E g \in DOMAIN tasks : OnError(g)

Spec == Init /\ [][Next]_vars

\* ---- the partition of the list, on lists of up to MaxChunkReports ---------
\* batchExport in a call that makes every task run to completion inside
\* batch.map: markdown (synchronous), no delay, no callbacks, no export fails.
InitChunks ==
  /\ \E n \in 0..MaxChunkReports : reports = ReportList(n)
  /\ batchSize \in 1..MaxChunkBatch
  /\ format = "markdown"
  /\ delayBetweenExports = 0
  /\ onProgress = "absent"
  /\ onError = "absent"
  /\ InitCall
  /\ NoExport

NextChunks ==
  \/ ForTest
  \/ MapCall
  \/ MapDone
  \/ AwaitFulfilled
  \/ \E g \in DOMAIN tasks : OnProgressStart(g)
  \/ \E g \in DOMAIN tasks : SwitchMarkdown(g) /\ tasks'[g].outcome = "ok"
  \/ \E g \in DOMAIN tasks : CountSuccess(g)
  \/ \E g \in DOMAIN tasks : OnProgressDone(g)

SpecChunks == InitChunks /\ [][NextChunks]_vars

\* A ReportData with every field, with or without its period.
SampleReport(withPeriod) ==
  [_id |-> "report-1",
   title |-> <<"W", "e", "e", "k", "l", "y", " ", "R", "e", "p", "o", "r", "t">>,
   report_type |-> "weekly",
   content |-> "content of the report",
   summary |-> "summary of the report",
   highlights |-> "highlights of the report",
   suggestions |-> "suggestions of the report",
   generated_at |-> <<"date", 1>>,
   period_start |-> IF withPeriod THEN <<"date", 0>> ELSE Undefined,
   period_end |-> IF withPeriod THEN <<"date", 1>> ELSE Undefined]

\* ---- the name of the downloaded file ---------------------------------------
UpperCase == <<"A", "B", "C", "D", "E", "F", "G", "H", "I", "J", "K", "L", "M",
               "N", "O", "P", "Q", "R", "S", "T", "U", "V", "W", "X", "Y", "Z", "É">>

LowerCase == <<"a", "b", "c", "d", "e", "f", "g", "h", "i", "j", "k", "l", "m",
               "n", "o", "p", "q", "r", "s", "t", "u", "v", "w", "x", "y", "z", "é">>

Digits == {"0", "1", "2", "3", "4", "5", "6", "7", "8", "9"}

\* the ASCII letters: the first 26 of each case
AsciiLetters == {UpperCase[k] : k \in 1..26} \cup {LowerCase[k] : k \in 1..26}

\* the class without the i flag: /[^a-z0-9]/
MatchesCaseSensitive(c) == c \notin {LowerCase[k] : k \in 1..26} \cup Digits

\* /[^a-z0-9]/i matches the character c
Matches(c) == c \notin AsciiLetters \cup Digits

\* title.replace(/[^a-z0-9]/gi, '_'): every match is replaced, one by one
ReplaceNonAlphanumeric(s) == [k \in 1..Len(s) |-> IF Matches(s[k]) THEN "_" ELSE s[k]]

\* String.prototype.toLowerCase
ToLowerCase(s) ==
  [k \in 1..Len(s) |->
     IF \E u \in 1..Len(UpperCase) : UpperCase[u] = s[k]
       THEN LowerCase[CHOOSE u \in 1..Len(UpperCase) : UpperCase[u] = s[k]]
       ELSE s[k]]

\* the extensions of the three formats
Extension(f) ==
  CASE f = "pdf" -> <<".", "p", "d", "f">>
    [] f = "word" -> <<".", "d", "o", "c", "x">>
    [] f = "markdown" -> <<".", "m", "d">>

\* `${report.title.replace(/[^a-z0-9]/gi, '_').toLowerCase()}.pdf` / .docx / .md
Filename(title, f) == ToLowerCase(ReplaceNonAlphanumeric(title)) \o Extension(f)

\* ---- batches whose exports may never settle ---------------------------------
\* batchExport with the asynchronous formats, no delay and no callbacks, on
\* lists long enough for a chunk of several reports to be followed by another.
InitHang ==
  /\ \E n \in 0..MaxHangReports : reports = ReportList(n)
  /\ batchSize \in 1..MaxBatchSize
  /\ format \in {"pdf", "word"}
  /\ delayBetweenExports = 0
  /\ onProgress = "absent"
  /\ onError = "absent"
  /\ InitCall
  /\ NoExport

NextHang ==
  \/ ForTest
  \/ MapCall
  \/ MapDone
  \/ AwaitFulfilled
  \/ \E g \in DOMAIN tasks : OnProgressStart(g)
  \/ \E g \in DOMAIN tasks : SwitchAsync(g)
  \/ \E g \in DOMAIN tasks : ExportSettle(g)
  \/ \E g \in DOMAIN tasks : CountSuccess(g)
  \/ \E g \in DOMAIN tasks : OnProgressDone(g)
  \/ \E g \in DOMAIN tasks : Catch(g)
  \/ \E g \in DOMAIN tasks : OnError(g)

\* No fairness: the promise of an export may stay pending for ever.
SpecHang == InitHang /\ [][NextHang]_vars

\* ---- exportToPDF: the page loop ------------------------------------------
imgWidth == 210

pageHeight == 295

\* Lengths are fractions of a millimetre with denominator canvas.width: the
\* model keeps their numerators, so that imgHeight is exact.
Mm(x) == x * canvas.width

\* (canvas.height * imgWidth) / canvas.width
imgHeight == canvas.height * imgWidth

\* new jsPDF('p', 'mm', 'a4'): a document of one empty page
NewPdf == << <<>> >>

\* pdf.addPage()
AddPage(doc) == Append(doc, <<>>)

\* pdf.addImage(imgData, 'PNG', 0, y, imgWidth, imgHeight): on the last page
AddImage(doc, y) == [doc EXCEPT ![Len(doc)] = Append(@, y)]

\* a loop that stops when nothing is left
LoopConditionStrict(left) == left > 0

\* while (heightLeft >= 0)
LoopCondition(left) == left >= 0

\* html2canvas has returned a canvas of positive width.
InitPdf ==
  /\ NoBatch /\ NoUi /\ NoReplace /\ NoCombine
  /\ singleReport = SampleReport(FALSE) /\ template = Undefined
  /\ markdown = <<>> /\ children = <<>>
  /\ step = "canvas"
  /\ canvas \in [width : 1..MaxCanvasWidth, height : 0..MaxCanvasHeight]
  /\ heightLeft = 0 /\ position = 0 /\ pdf = <<>>

\* let heightLeft = imgHeight; let position = 0; pdf.addImage(...); heightLeft -= pageHeight
PdfFirstPage ==
  /\ step = "canvas"
  /\ position' = 0
  /\ pdf' = AddImage(NewPdf, position')
  /\ heightLeft' = imgHeight - Mm(pageHeight)
  /\ step' = "while"
  /\ UNCHANGED <<batchVars, uiVars, canvas, replaceVars, renderVars, combinedReport>>

\* while (heightLeft >= 0) { position = heightLeft - imgHeight; pdf.addPage(); pdf.addImage(...); heightLeft -= pageHeight }
PdfWhile ==
  /\ step = "while"
  /\ IF LoopCondition(heightLeft)
       THEN /\ position' = heightLeft - imgHeight
            /\ pdf' = AddImage(AddPage(pdf), position')
            /\ heightLeft' = heightLeft - Mm(pageHeight)
            /\ UNCHANGED step
       ELSE /\ step' = "save"
            /\ UNCHANGED <<position, pdf, heightLeft>>
  /\ UNCHANGED <<batchVars, uiVars, canvas, replaceVars, renderVars, combinedReport>>

\* const filename = `${...}.pdf`; pdf.save(filename)
PdfSave ==
  /\ step = "save"
  /\ filename' = Filename(singleReport.title, "pdf")
  /\ step' = "saved"
  /\ UNCHANGED <<batchVars, pdfVars, replaceVars, renderVars, combinedReport,
                 errors, exportDialog, element, documentBody>>

NextPdf == PdfFirstPage \/ PdfWhile \/ PdfSave

SpecPdf == InitPdf /\ [][NextPdf]_vars

\* ---- exportToPDF: the element that is rasterized --------------------------------
\* The page's own content, and the element exportToPDF creates when it is given none.
RootElement == <<"div", "root">>

TempDiv == <<"div", "tempDiv">>

\* exportToPDF(report, element, template) is called with or without an element.
InitTempDiv ==
  /\ NoBatch /\ NoReplace /\ NoCombine
  /\ singleReport = SampleReport(FALSE) /\ template = Undefined
  /\ markdown = <<>> /\ children = <<>>
  /\ errors = <<>> /\ filename = Undefined /\ exportDialog = Undefined
  /\ element \in {Undefined, RootElement}
  /\ documentBody = {RootElement}
  /\ step = "call"
  /\ NoPdf

\* if (element) { canvas = await html2canvas(element, ...) }
\* else { const tempDiv = ...; document.body.appendChild(tempDiv); canvas = await html2canvas(tempDiv, ...)
PdfRasterize ==
  /\ step = "call"
  /\ documentBody' = IF element # Undefined THEN documentBody
                     ELSE documentBody \cup {TempDiv}
  /\ step' = "html2canvas"
  /\ UNCHANGED <<batchVars, pdfVars, replaceVars, renderVars, combinedReport,
                 errors, filename, exportDialog, element>>

\* html2canvas resolves with a canvas; without an element: document.body.removeChild(tempDiv)
Html2canvasResolves ==
  /\ step = "html2canvas"
  /\ canvas' \in [width : 1..MaxCanvasWidth, height : 0..MaxCanvasHeight]
  /\ documentBody' = IF element # Undefined THEN documentBody
                     ELSE documentBody \ {TempDiv}
  /\ step' = "canvas"
  /\ UNCHANGED <<batchVars, heightLeft, position, pdf, replaceVars, renderVars,
                 combinedReport, errors, filename, exportDialog, element>>

\* html2canvas rejects: the await throws into the catch block
Html2canvasRejects ==
  /\ step = "html2canvas"
  /\ step' = "catch"
  /\ UNCHANGED <<batchVars, pdfVars, replaceVars, renderVars, combinedReport, uiVars>>

\* catch (error) { console.error(...); throw new Error('Failed to export PDF. Please try again.') }
PdfCatch ==
  /\ step = "catch"
  /\ step' = "rejected"
  /\ UNCHANGED <<batchVars, pdfVars, replaceVars, renderVars, combinedReport, uiVars>>

NextTempDiv ==
  \/ PdfRasterize
  \/ Html2canvasResolves
  \/ Html2canvasRejects
  \/ PdfCatch
  \/ PdfFirstPage
  \/ PdfWhile
  \/ PdfSave

SpecTempDiv == InitTempDiv /\ [][NextTempDiv]_vars

\* ---- replaceVariables ------------------------------------------------------
\* A string is the sequence of its characters.
\* `{${variable.name}}`
Placeholder(name) == <<"{">> \o name \o <<"}">>

\* str.replace(new RegExp(pattern, 'g'), replacement) for a pattern that matches
\* only itself: every match, left to right, what was inserted is not scanned again.
RECURSIVE ReplaceAll(_, _, _)
ReplaceAll(str, pattern, replacement) ==
  IF Len(str) < Len(pattern) THEN str
  ELSE IF SubSeq(str, 1, Len(pattern)) = pattern
    THEN replacement \o ReplaceAll(SubSeq(str, Len(pattern) + 1, Len(str)), pattern, replacement)
    ELSE <<Head(str)>> \o ReplaceAll(Tail(str), pattern, replacement)

\* variables.forEach(variable => { result = result.replace(...) }), from the k-th on
RECURSIVE ForEachVariable(_, _, _)
ForEachVariable(text, vs, k) ==
  IF k > Len(vs) THEN text
  ELSE ForEachVariable(ReplaceAll(text, Placeholder(vs[k].name), vs[k].defaultValue), vs, k + 1)

\* let result = content; variables.forEach(...); return result
ReplaceVariables(text, vs) == ForEachVariable(text, vs, 1)

VariableNames == {<<"a">>, <<"b">>}

VariableValues == {<<>>, <<"x">>, <<"{", "a", "}">>, <<"{", "b", "}">>}

TemplateVariables == [name : VariableNames, defaultValue : VariableValues]

Contents ==
  {<<>>, <<"x">>, <<"{", "a", "}">>, <<"{", "b", "}">>,
   <<"{", "a", "}", "{", "b", "}">>, <<"{", "a", "}", "x", "{", "a", "}">>,
   <<"{", "{", "a", "}", "b", "}">>}

InitReplace ==
  /\ NoBatch /\ NoUi /\ NoPdf /\ NoRender /\ NoCombine
  /\ step = "call"
  /\ content \in Contents
  /\ \E n \in 0..MaxVariables : variables \in [1..n -> TemplateVariables]
  /\ replaced = <<>>

\* replaceVariables(content, variables)
ReplaceVariablesCall ==
  /\ step = "call"
  /\ replaced' = ReplaceVariables(content, variables)
  /\ step' = "returned"
  /\ UNCHANGED <<batchVars, uiVars, pdfVars, content, variables, renderVars, combinedReport>>

NextReplace == ReplaceVariablesCall

SpecReplace == InitReplace /\ [][NextReplace]_vars

\* ---- the renderers: exportToMarkdown and exportToWord ----------------------
\* An optional argument that is given.
Given(value) == <<"given", value>>

\* new Date(date).toLocaleDateString(), of a date string <<"date", t>>
LocaleDate(date) == <<"locale date", date[2]>>

\* The k-th custom section of a template, with the given order.
CustomSection(k, order) ==
  [id |-> k,
   title |-> "Custom " \o ToString(k),
   content |-> "custom content " \o ToString(k),
   order |-> order]

CustomSectionLists ==
  UNION {{[k \in 1..n |-> CustomSection(k, orders[k])] : orders \in [1..n -> 1..MaxOrder]} :
           n \in 0..MaxCustomSections}

\* The ExportTemplate values of the model: the fields the renderers' output
\* is built from (styling left out).
Templates ==
  [header : {[enabled |-> e, content |-> <<"{", "a", "}">>, showDate |-> FALSE] : e \in BOOLEAN},
   footer : {[enabled |-> e, content |-> <<"{", "b", "}">>, showGeneratedBy |-> TRUE,
              companyName |-> ""] : e \in BOOLEAN},
   sections : [showExecutiveSummary : BOOLEAN,
               showHighlights : BOOLEAN,
               showDetailedContent : BOOLEAN,
               showRecommendations : BOOLEAN,
               customSections : CustomSectionLists],
   variables : {<<[name |-> <<"a">>, defaultValue |-> <<"A", "c", "m", "e">>]>>},
   styling : {[spacing |-> [sectionGap |-> 32]]}]

RECURSIVE SortByOrder(_)
\* the sort left out: the sections as the template lists them
Unsorted(sections) == sections

\* Array.prototype.sort((a, b) => a.order - b.order): stable, ascending order.
SortByOrder(sections) ==
  IF sections = <<>> THEN <<>>
  ELSE LET last == sections[Len(sections)]
           front == SortByOrder(SubSeq(sections, 1, Len(sections) - 1))
           keep == {k \in 1..Len(front) : front[k].order <= last.order}
           at == IF keep = {} THEN 0 ELSE CHOOSE k \in keep : \A m \in keep : m <= k
       IN SubSeq(front, 1, at) \o <<last>> \o SubSeq(front, at + 1, Len(front))

\* customSections.sort(...) sorts the array of the template itself.
SortedInPlace(t) == [t EXCEPT !.sections.customSections = SortByOrder(@)]

\* A Markdown string is the sequence of its lines; a line is a tuple of its parts.
\* `## ${heading}\n\n${body}\n\n`
MarkdownSection(heading, body) == << <<"##", heading>>, <<"">>, <<"text", body>>, <<"">> >>

\* the period line of both Markdown generators
PeriodInfo(r) ==
  IF r.period_start # Undefined /\ r.period_end # Undefined
    THEN << <<"**Period:**", LocaleDate(r.period_start), LocaleDate(r.period_end)>>, <<"">> >>
    ELSE <<>>

\* the four fixed sections, whatever the toggles
FixedMarkdownAll(r, sections) ==
  MarkdownSection("Executive Summary", r.summary)
    \o MarkdownSection("Key Highlights", r.highlights)
    \o MarkdownSection("Detailed Report", r.content)
    \o MarkdownSection("Recommendations & Next Steps", r.suggestions)

\* if (template.sections.showExecutiveSummary) { markdown += ... } and the three ifs after it
FixedMarkdown(r, sections) ==
  (IF sections.showExecutiveSummary
     THEN MarkdownSection("Executive Summary", r.summary) ELSE <<>>)
    \o (IF sections.showHighlights
          THEN MarkdownSection("Key Highlights", r.highlights) ELSE <<>>)
    \o (IF sections.showDetailedContent
          THEN MarkdownSection("Detailed Report", r.content) ELSE <<>>)
    \o (IF sections.showRecommendations
          THEN MarkdownSection("Recommendations & Next Steps", r.suggestions) ELSE <<>>)

\* .forEach(section => { markdown += `## ${section.title}\n\n${section.content}\n\n` })
RECURSIVE CustomMarkdown(_)
CustomMarkdown(sections) ==
  IF sections = <<>> THEN <<>>
  ELSE MarkdownSection(Head(sections).title, Head(sections).content)
         \o CustomMarkdown(Tail(sections))

\* the footer of generateTemplatedMarkdown
FooterMarkdown(t) ==
  IF t.footer.enabled
    THEN << <<"---">>,
            <<"*", ReplaceVariables(t.footer.content, t.variables),
              IF t.footer.showGeneratedBy
                THEN (IF t.footer.companyName # "" THEN t.footer.companyName
                                                   ELSE "Smart Report Generator")
                ELSE "", "*">> >>
    ELSE << <<"---">>, <<"*Generated by Smart Report Generator*">> >>

GenerateTemplatedMarkdown(r, t) ==
  (IF t.header.enabled
     THEN << <<"---">>, <<"**", ReplaceVariables(t.header.content, t.variables), "**">>,
             <<"---">>, <<"">> >>
     ELSE <<>>)
    \o << <<"#", r.title>>, <<"">> >>
    \o << <<"**Report Type:**", r.report_type>>, <<"**Generated:**", LocaleDate(r.generated_at)>> >>
    \o PeriodInfo(r)
    \o << <<"">> >>
    \o FixedMarkdown(r, t.sections)
    \o CustomMarkdown(SortByOrder(t.sections.customSections))
    \o FooterMarkdown(t)

GenerateMarkdown(r) ==
  << <<"#", r.title>>, <<"">> >>
    \o << <<"**Report Type:**", r.report_type>>, <<"**Generated:**", LocaleDate(r.generated_at)>> >>
    \o PeriodInfo(r)
    \o << <<"">> >>
    \o MarkdownSection("Executive Summary", r.summary)
    \o MarkdownSection("Key Highlights", r.highlights)
    \o MarkdownSection("Detailed Report", r.content)
    \o MarkdownSection("Recommendations & Next Steps", r.suggestions)
    \o << <<"---">>, <<"*Generated by Smart Report Generator*">> >>

\* a renderer that shows every fixed section, whatever the template says
WordShowsAlways(t, toggle) == TRUE

\* if (!template || template.sections.showExecutiveSummary) and the three ifs after it
WordShows(t, toggle) == t = Undefined \/ t[2].sections[toggle]

\* children.push(new Paragraph({ ..., heading: HeadingLevel.HEADING_1 }), new Paragraph({ ... }))
WordSection(heading, body) == << <<"HEADING_1", heading>>, <<"paragraph", body>> >>

\* const children: Paragraph[] = []; children.push(...) ...
NaN == <<"NaN">>

\* template?.styling.spacing.sectionGap
SectionGap(t) ==
  IF t = Undefined THEN Undefined ELSE <<"number", t[2].styling.spacing.sectionGap>>

\* value * k for a number or undefined: undefined * k is NaN
Times(value, k) == IF value = Undefined THEN NaN ELSE <<"number", value[2] * k>>

\* a || b for a number a: 0 and NaN are falsy
OrNumber(a, b) == IF a = NaN \/ a = <<"number", 0>> THEN b ELSE a

\* spacing: { after: template?.styling.spacing.sectionGap * 10 || 400 }
TitleSpacingAfter(t) == OrNumber(Times(SectionGap(t), 10), <<"number", 400>>)

WordChildren(r, t) ==
  << <<"TITLE", r.title, TitleSpacingAfter(t)>>,
     <<"paragraph", r.report_type, LocaleDate(r.generated_at)>> >>
    \o (IF r.period_start # Undefined /\ r.period_end # Undefined
          THEN << <<"paragraph", LocaleDate(r.period_start), LocaleDate(r.period_end)>> >>
          ELSE <<>>)
    \o (IF WordShows(t, "showExecutiveSummary")
          THEN WordSection("Executive Summary", r.summary) ELSE <<>>)
    \o (IF WordShows(t, "showHighlights")
          THEN WordSection("Key Highlights", r.highlights) ELSE <<>>)
    \o (IF WordShows(t, "showDetailedContent")
          THEN WordSection("Detailed Report", r.content) ELSE <<>>)
    \o (IF WordShows(t, "showRecommendations")
          THEN WordSection("Recommendations & Next Steps", r.suggestions) ELSE <<>>)

InitRender ==
  /\ NoBatch /\ NoUi /\ NoPdf /\ NoReplace /\ NoCombine
  /\ step = "call"
  /\ singleReport \in {SampleReport(TRUE), SampleReport(FALSE)}
  /\ template \in {Undefined} \cup {Given(t) : t \in Templates}
  /\ markdown = <<>>
  /\ children = <<>>

\* exportToMarkdown(report, template): the string is generated and saved
ExportToMarkdown ==
  /\ step = "call"
  /\ IF template # Undefined
       THEN /\ markdown' = GenerateTemplatedMarkdown(singleReport, template[2])
            /\ template' = Given(SortedInPlace(template[2]))
       ELSE /\ markdown' = GenerateMarkdown(singleReport)
            /\ UNCHANGED template
  /\ filename' = Filename(singleReport.title, "markdown")
  /\ step' = "markdown"
  /\ UNCHANGED <<batchVars, pdfVars, replaceVars, singleReport, children, combinedReport,
                 errors, exportDialog, element, documentBody>>

\* exportToWord(report, template): the paragraphs are built, packed and saved
ExportToWord ==
  /\ step = "call"
  /\ children' = WordChildren(singleReport, template)
  /\ filename' = Filename(singleReport.title, "word")
  /\ step' = "word"
  /\ UNCHANGED <<batchVars, pdfVars, replaceVars, singleReport, template, markdown,
                 combinedReport, errors, exportDialog, element, documentBody>>

NextRender == ExportToMarkdown \/ ExportToWord

SpecRender == InitRender /\ [][NextRender]_vars

\* ---- the spacing of the Word title -------------------------------------------
\* A template with every section shown and no custom section, for every section gap.
GapTemplate(gap) ==
  [header |-> [enabled |-> FALSE, content |-> <<>>, showDate |-> FALSE],
   footer |-> [enabled |-> FALSE, content |-> <<>>, showGeneratedBy |-> FALSE,
              companyName |-> ""],
   sections |-> [showExecutiveSummary |-> TRUE,
                 showHighlights |-> TRUE,
                 showDetailedContent |-> TRUE,
                 showRecommendations |-> TRUE,
                 customSections |-> <<>>],
   variables |-> <<>>,
   styling |-> [spacing |-> [sectionGap |-> gap]]]

InitSpacing ==
  /\ NoBatch /\ NoUi /\ NoPdf /\ NoReplace /\ NoCombine
  /\ step = "call"
  /\ singleReport = SampleReport(FALSE)
  /\ template \in {Undefined} \cup {Given(GapTemplate(gap)) : gap \in 0..MaxSectionGap}
  /\ markdown = <<>>
  /\ children = <<>>

SpecSpacing == InitSpacing /\ [][NextRender]_vars

\* ---- the file names of the three exports ---------------------------------
\* Titles: every string of up to MaxTitleLength of these characters, and one sample.
TitleChars == {"Q", "e", "1", " ", "!", "_", "É"}

SampleTitle == <<"Q", "1", " ", "R", "e", "v", "i", "e", "w", "!">>

Titles == UNION {[1..n -> TitleChars] : n \in 0..MaxTitleLength} \cup {SampleTitle}

\* A report with any of the titles goes to one of the three exports; the PDF
\* export is entered where html2canvas has returned.
InitFilename ==
  /\ NoBatch /\ NoUi /\ NoReplace /\ NoCombine
  /\ \E t \in Titles : singleReport = [SampleReport(FALSE) EXCEPT !.title = t]
  /\ template = Undefined /\ markdown = <<>> /\ children = <<>>
  /\ step \in {"canvas", "call"}
  /\ canvas = IF step = "canvas" THEN [width |-> 1, height |-> 1] ELSE Undefined
  /\ heightLeft = 0 /\ position = 0 /\ pdf = <<>>

NextFilename == NextPdf \/ NextRender

SpecFilename == InitFilename /\ [][NextFilename]_vars

\* ---- exportCombinedReport ---------------------------------------------------
\* A JSON text is the sequence of its tokens: <<"[">>, <<"]">>, <<",">>, the
\* literals <<"string", s>>, <<"quoted", text>> (a string literal holding text),
\* <<"number", n>>, <<"null">>, and <<"word", w>> for text that is no JSON token.
\* A JavaScript value is <<"array", elements>>, <<"string", s>>, <<"raw", text>>
\* (a string holding text), <<"number", n>> or <<"null">>.
ParseFails == [ok |-> FALSE, value |-> <<"null">>, rest |-> <<>>]

RECURSIVE ParseValue(_)
RECURSIVE ParseElements(_, _)
\* the elements of an array after "[" or ",", up to the closing "]"
ParseElements(tokens, elements) ==
  LET first == ParseValue(tokens)
  IN IF ~first.ok \/ first.rest = <<>> THEN ParseFails
     ELSE IF Head(first.rest) = <<"]">>
       THEN [ok |-> TRUE, value |-> <<"array", Append(elements, first.value)>>,
             rest |-> Tail(first.rest)]
     ELSE IF Head(first.rest) = <<",">>
       THEN ParseElements(Tail(first.rest), Append(elements, first.value))
     ELSE ParseFails

\* one JSON value at the head of the tokens
ParseValue(tokens) ==
  IF tokens = <<>> THEN ParseFails
  ELSE IF Head(tokens) = <<"[">>
    THEN IF Len(tokens) >= 2 /\ tokens[2] = <<"]">>
           THEN [ok |-> TRUE, value |-> <<"array", <<>>>>, rest |-> SubSeq(tokens, 3, Len(tokens))]
           ELSE ParseElements(Tail(tokens), <<>>)
  ELSE IF Head(tokens)[1] \in {"string", "number", "null"}
    THEN [ok |-> TRUE, value |-> Head(tokens), rest |-> Tail(tokens)]
  ELSE IF Head(tokens)[1] = "quoted"
    THEN [ok |-> TRUE, value |-> <<"raw", Head(tokens)[2]>>, rest |-> Tail(tokens)]
  ELSE ParseFails

\* JSON.parse(text): the whole text is one value, or a SyntaxError is thrown
JsonParse(text) ==
  LET parsed == ParseValue(text)
  IN IF parsed.ok /\ parsed.rest = <<>> THEN parsed ELSE ParseFails

RECURSIVE JsonStringify(_)
RECURSIVE StringifyElements(_)
StringifyElements(elements) ==
  IF elements = <<>> THEN <<>>
  ELSE IF Len(elements) = 1 THEN JsonStringify(elements[1])
  ELSE JsonStringify(elements[1]) \o << <<",">> >> \o StringifyElements(Tail(elements))

\* JSON.stringify(value)
JsonStringify(value) ==
  IF value[1] = "array" THEN << <<"[">> >> \o StringifyElements(value[2]) \o << <<"]">> >>
  ELSE IF value[1] = "raw" THEN << <<"quoted", value[2]>> >>
  ELSE <<value>>

\* Boolean(value): "", 0 and null are falsy
Truthy(value) ==
  /\ value # <<"string", "">>
  /\ value # <<"raw", <<>>>>
  /\ value # <<"number", "0">>
  /\ value # <<"null">>

\* try { return JSON.parse(report.highlights) } catch { return [report.highlights] }
ParsedHighlights(r) ==
  IF JsonParse(r.highlights).ok
    THEN JsonParse(r.highlights).value
    ELSE <<"array", <<<<"raw", r.highlights>>>>>>

\* Array.prototype.flat(): the elements of arrays, one level deep
RECURSIVE Flat(_)
Flat(values) ==
  IF values = <<>> THEN <<>>
  ELSE (IF Head(values)[1] = "array" THEN Head(values)[2] ELSE <<Head(values)>>)
         \o Flat(Tail(values))

highlightLimit == 10

\* reports.map(...).flat().filter(Boolean), then JSON.stringify(allHighlights.slice(0, 10))
GenerateCombinedHighlights(rs) ==
  LET allHighlights == SelectSeq(Flat([k \in 1..Len(rs) |-> ParsedHighlights(rs[k])]), Truthy)
  IN JsonStringify(<<"array", Slice(allHighlights, 0, highlightLimit)>>)

\* the block of one report in generateCombinedContent
CombinedBlock(r, index) ==
  << <<"## Report", index + 1, r.title>>,
     <<"**Type:**", r.report_type>>,
     <<"**Generated:**", LocaleDate(r.generated_at)>>,
     <<"### Summary", r.summary>>,
     <<"### Key Highlights", r.highlights>>,
     <<"### Content", r.content>>,
     <<"### Suggestions", r.suggestions>>,
     <<"---">> >>

\* reports.map((report, index) => `...`).join('\n'), as the sequence of its lines
RECURSIVE GenerateCombinedContent(_)
GenerateCombinedContent(rs) ==
  IF rs = <<>> THEN <<>>
  ELSE GenerateCombinedContent(SubSeq(rs, 1, Len(rs) - 1))
         \o CombinedBlock(rs[Len(rs)], Len(rs) - 1)

\* `This combined report includes ${reports.length} individual reports ...`
GenerateCombinedSummary(rs) ==
  <<"This combined report includes", Len(rs), "individual reports">>

\* `Based on analysis of ${reports.length} reports:\n\n${suggestions}`
GenerateCombinedSuggestions(rs) ==
  <<"Based on analysis of", Len(rs), "reports:",
    [k \in 1..Len(rs) |-> rs[k].suggestions]>>

\* the fallback alone: the first operand never looked at
OrSecond(a, b) == b

\* a || b, for a date string or undefined
Or(a, b) == IF a # Undefined THEN a ELSE b

\* new Date(date).getTime()
GetTime(date) == date[2]

RangeError == <<"throws", "RangeError: Invalid time value">>

\* Math.min(...times): Infinity when there is no number
MathMin(times) ==
  IF times = {} THEN <<"Infinity">>
  ELSE <<"number", CHOOSE t \in times : \A u \in times : t <= u>>

\* Math.max(...times): -Infinity when there is no number
MathMax(times) ==
  IF times = {} THEN <<"-Infinity">>
  ELSE <<"number", CHOOSE t \in times : \A u \in times : t >= u>>

\* new Date(time).toISOString(): throws on a time that is not finite
ToISOString(time) == IF time[1] = "number" THEN <<"iso", time[2]>> ELSE RangeError

\* reports.map(report => report.period_start || report.generated_at).filter(Boolean) ...
GetEarliestDate(rs) ==
  LET dates == SelectSeq([k \in 1..Len(rs) |-> Or(rs[k].period_start, rs[k].generated_at)],
                         LAMBDA d : d # Undefined)
  IN ToISOString(MathMin({GetTime(dates[k]) : k \in 1..Len(dates)}))

\* reports.map(report => report.period_end || report.generated_at).filter(Boolean) ...
GetLatestDate(rs) ==
  LET dates == SelectSeq([k \in 1..Len(rs) |-> Or(rs[k].period_end, rs[k].generated_at)],
                         LAMBDA d : d # Undefined)
  IN ToISOString(MathMax({GetTime(dates[k]) : k \in 1..Len(dates)}))

\* the period computed for an empty list as well
PeriodOfUnguarded(rs, date) == date

\* reports.length > 0 ? this.getEarliestDate(reports) : undefined
PeriodOf(rs, date) == IF Len(rs) > 0 THEN date ELSE Undefined

\* A source report with the given highlights and dates.
SourceReport(k, highlights, start, end, generated) ==
  [_id |-> "report-" \o ToString(k),
   title |-> "Report " \o ToString(k),
   report_type |-> "weekly",
   content |-> "content " \o ToString(k),
   summary |-> "summary " \o ToString(k),
   highlights |-> highlights,
   suggestions |-> "suggestions " \o ToString(k),
   generated_at |-> generated,
   period_start |-> start,
   period_end |-> end]

JsonArrayOf(elements) == JsonStringify(<<"array", elements>>)

\* The highlights strings of the model: JSON arrays (one empty, one of six
\* entries, one with an empty string, one nested), JSON that is no array, and
\* text that is no JSON.
HighlightTexts ==
  {JsonArrayOf(<<>>),
   JsonArrayOf(<< <<"string", "a">>, <<"string", "b">> >>),
   JsonArrayOf([k \in 1..6 |-> <<"string", "h" \o ToString(k)>>]),
   JsonArrayOf(<< <<"string", "a">>, <<"string", "">> >>),
   JsonArrayOf(<< <<"array", << <<"string", "a">> >> >>, <<"string", "b">> >>),
   << <<"string", "c">> >>,
   << <<"null">> >>,
   << <<"word", "Revenue up 10%">> >>,
   << <<"[">>, <<"string", "a">>, <<",">> >>,
   <<>>}

DateStrings == {<<"date", t>> : t \in 0..MaxTime}

InitCombine ==
  /\ NoBatchOptions /\ NoUi /\ NoPdf /\ NoReplace /\ NoRender
  /\ step = "call"
  /\ combinedReport = Undefined

\* exportCombinedReport on reports of any highlights
InitHighlights ==
  /\ InitCombine
  /\ \E n \in 0..MaxCombined : \E hs \in [1..n -> HighlightTexts] :
       reports = [k \in 1..n |-> SourceReport(k, hs[k], Undefined, Undefined, <<"date", 0>>)]

\* exportCombinedReport on reports of any dates
InitPeriod ==
  /\ InitCombine
  /\ \E n \in 0..MaxPeriodReports :
       \E starts, ends \in [1..n -> DateStrings \cup {Undefined}] :
         \E generated \in [1..n -> DateStrings] :
           reports = [k \in 1..n |->
                        SourceReport(k, JsonArrayOf(<<>>), starts[k], ends[k], generated[k])]

\* const combinedReport: ReportData = { ... }: a field that throws rejects the call
CombineBuild ==
  /\ step = "call"
  /\ LET start == PeriodOf(reports, GetEarliestDate(reports))
         end == PeriodOf(reports, GetLatestDate(reports))
     IN IF start = RangeError \/ end = RangeError
          THEN /\ step' = "rejected"
               /\ UNCHANGED combinedReport
          ELSE /\ step' = "built"
               /\ combinedReport' =
                    [_id |-> "combined",
                     title |-> "Combined Report",
                     report_type |-> "combined",
                     content |-> GenerateCombinedContent(reports),
                     summary |-> GenerateCombinedSummary(reports),
                     highlights |-> GenerateCombinedHighlights(reports),
                     suggestions |-> GenerateCombinedSuggestions(reports),
                     generated_at |-> <<"iso", MaxTime>>,
                     period_start |-> start,
                     period_end |-> end]
  /\ UNCHANGED <<batchVars, uiVars, pdfVars, replaceVars, renderVars>>

\* switch (format): the combined report goes to the single export of the format
CombineExport ==
  /\ step = "built"
  /\ step' = "exported"
  /\ UNCHANGED <<batchVars, uiVars, pdfVars, replaceVars, renderVars, combinedReport>>

NextCombine == CombineBuild \/ CombineExport

SpecHighlights == InitHighlights /\ [][NextCombine]_vars

SpecPeriod == InitPeriod /\ [][NextCombine]_vars

\* ---- validateReportsForExport ----------------------------------------------
\* Strings whose characters matter are sequences of one-character strings.
Whitespace == {" ", "\t", "\n"}

\* a trim that strips nothing
TrimNothing(s) == s

\* String.prototype.trim: leading and trailing white space is stripped
Trim(s) ==
  LET kept == {k \in 1..Len(s) : s[k] \notin Whitespace}
  IN  IF kept = {} THEN <<>>
      ELSE SubSeq(s, CHOOSE k \in kept : \A j \in kept : k <= j,
                     CHOOSE k \in kept : \A j \in kept : k >= j)

\* value?.trim(): undefined stays undefined
OptionalTrim(value) == IF value = Undefined THEN Undefined ELSE Trim(value)

\* !value for a string or undefined
Not(value) == value = Undefined \/ value = <<>>

\* reports.length > 50
reportLimit == 50

\* the body of the forEach callback: the messages it pushes for one report
PushedFor(r, index) ==
  (IF Not(OptionalTrim(r.title)) THEN << <<"Report has no title", index + 1>> >> ELSE <<>>)
  \o (IF Not(OptionalTrim(r.content)) THEN << <<"Report has no content", r.title>> >> ELSE <<>>)

\* reports.forEach((report, index) => { ... }) over the first n reports
RECURSIVE ForEachReport(_, _)
ForEachReport(rs, n) ==
  IF n = 0 THEN <<>>
  ELSE ForEachReport(rs, n - 1) \o PushedFor(rs[n], n - 1)

\* static validateReportsForExport(reports: ReportData[]): string[]
ValidateReportsForExport(rs) ==
  (IF Len(rs) = 0 THEN << <<"No reports selected for export">> >> ELSE <<>>)
  \o (IF Len(rs) > reportLimit
        THEN << <<"Too many reports selected. Maximum 50 reports allowed per batch">> >>
        ELSE <<>>)
  \o ForEachReport(rs, Len(rs))

\* Titles and contents: missing, empty, white space only, and with text.
TitleValues == {Undefined, <<>>, <<" ", "\t">>, <<" ", "Q", "1">>}

ContentValues == {Undefined, <<>>, <<"\n">>, <<"o", "k", " ">>}

\* Lists of every short length and of the lengths around the limit; the reports
\* of a list repeat a pattern of MaxPattern titles and contents.
ValidateLengths == (0..MaxPattern) \cup {reportLimit, reportLimit + 1}

PatternedReports(n, titles, contents) ==
  [k \in 1..n |-> [_id |-> <<"id", k - 1>>,
                   title |-> titles[((k - 1) % MaxPattern) + 1],
                   content |-> contents[((k - 1) % MaxPattern) + 1]]]

InitValidate ==
  /\ NoBatchOptions /\ NoPdf /\ NoReplace /\ NoRender /\ NoCombine /\ NoUi
  /\ step = "call"
  /\ \E n \in ValidateLengths :
       \E titles \in [1..MaxPattern -> TitleValues] :
         \E contents \in [1..MaxPattern -> ContentValues] :
           reports = PatternedReports(n, titles, contents)

\* const errors = validateReportsForExport(reports)
ValidateCall ==
  /\ step = "call"
  /\ errors' = ValidateReportsForExport(reports)
  /\ step' = "returned"
  /\ UNCHANGED <<batchVars, pdfVars, replaceVars, renderVars, combinedReport,
                 filename, exportDialog, element, documentBody>>

NextValidate == ValidateCall

SpecValidate == InitValidate /\ [][NextValidate]_vars

\* ---- ExportDialog: handleExport ----------------------------------------------
ExportFormats == {"pdf", "word", "markdown"}

Null == <<"null">>

\* An ExportTemplate of the dialog; only its format is read by handleExport.
DialogTemplate(f) == <<"template", f>>

DialogTemplates == {Null} \cup {DialogTemplate(f) : f \in ExportFormats}

\* a check that lets every template through
MismatchIgnored(selectedTemplate, selectedFormat) == FALSE

\* selectedTemplate && selectedTemplate.format !== selectedFormat
TemplateMismatch(selectedTemplate, selectedFormat) ==
  selectedTemplate # Null /\ selectedTemplate[2] # selectedFormat

\* The dialog is open with the format 'pdf'; the effect has selected the
\* favorite template, if the stored templates hold one.
InitDialog ==
  /\ NoBatch /\ NoPdf /\ NoReplace /\ NoRender /\ NoCombine
  /\ step = "none"
  /\ errors = <<>> /\ filename = Undefined /\ element = Undefined /\ documentBody = {}
  /\ \E favorite \in DialogTemplates :
       exportDialog = [open |-> TRUE,
                       selectedFormat |-> "pdf",
                       selectedTemplate |-> favorite,
                       isExporting |-> FALSE,
                       exportStatus |-> "idle",
                       pc |-> "idle",
                       rendererCalls |-> <<>>,
                       timers |-> 0,
                       exports |-> 0]

DialogUnchanged ==
  UNCHANGED <<batchVars, step, pdfVars, replaceVars, renderVars, combinedReport,
              errors, filename, element, documentBody>>

\* onValueChange={(value) => setSelectedFormat(value as ExportFormat)}
SetSelectedFormat(f) ==
  /\ exportDialog.open
  /\ exportDialog' = [exportDialog EXCEPT !.selectedFormat = f]
  /\ DialogUnchanged

\* onValueChange={(templateId) => { ...; setSelectedTemplate(template || null) }}
SetSelectedTemplate(t) ==
  /\ exportDialog.open
  /\ exportDialog' = [exportDialog EXCEPT !.selectedTemplate = t]
  /\ DialogUnchanged

\* setExportStatus('success'); toast(...); setTimeout(() => {...}, 2000); finally setIsExporting(false)
Succeeded(d) ==
  [d EXCEPT !.exportStatus = "success", !.timers = @ + 1, !.isExporting = FALSE, !.pc = "idle"]

\* catch (error) { setExportStatus('error'); toast(...) } finally { setIsExporting(false) }
Failed(d) == [d EXCEPT !.exportStatus = "error", !.isExporting = FALSE, !.pc = "idle"]

\* handleExport up to its first await, run by a click on the Export button
\* (disabled={isExporting || !selectedFormat})
HandleExport ==
  /\ exportDialog.open /\ ~exportDialog.isExporting
  /\ exportDialog.exports < MaxExports
  /\ LET called == [exportDialog EXCEPT !.exports = @ + 1,
                                        !.isExporting = TRUE,
                                        !.exportStatus = "idle"]
         invoked == [called EXCEPT !.rendererCalls = Append(@, called.selectedFormat)]
     IN  IF TemplateMismatch(called.selectedTemplate, called.selectedFormat)
           THEN exportDialog' = Failed(called)
           ELSE IF called.selectedFormat = "markdown"
                  THEN exportDialog' \in {Succeeded(invoked), Failed(invoked)}
                  ELSE exportDialog' = [invoked EXCEPT !.pc = "awaiting"]
  /\ DialogUnchanged

\* await ReportExporter.exportToPDF(...) / exportToWord(...) settles
RendererSettles ==
  /\ exportDialog.pc = "awaiting"
  /\ exportDialog' \in {Succeeded(exportDialog), Failed(exportDialog)}
  /\ DialogUnchanged

\* setTimeout(() => { onOpenChange(false); setExportStatus('idle') }, 2000)
AutoClose ==
  /\ exportDialog.timers > 0
  /\ exportDialog' = [exportDialog EXCEPT !.timers = @ - 1, !.open = FALSE,
                                          !.exportStatus = "idle"]
  /\ DialogUnchanged

\* Cancel: onClick={() => onOpenChange(false)} disabled={isExporting}
Cancel ==
  /\ exportDialog.open /\ ~exportDialog.isExporting
  /\ exportDialog' = [exportDialog EXCEPT !.open = FALSE]
  /\ DialogUnchanged

NextDialog ==
  \/ \E f \in ExportFormats : SetSelectedFormat(f)
  \/ \E t \in DialogTemplates : SetSelectedTemplate(t)
  \/ HandleExport
  \/ RendererSettles
  \/ AutoClose
  \/ Cancel

SpecDialog == InitDialog /\ [][NextDialog]_vars

\* The event loop keeps running what is ready, timers fire, and every export
\* call settles: the program does not stop while a step can be taken.
FairSpec == Spec /\ WF_vars(Next)

\* ---- vocabulary of the properties ---------------------------------------
N == Len(reports)

Indices == 0..(N - 1)

\* The caller's callbacks, where given, return normally.
CallbacksReturn == onProgress # "throws" /\ onError # "throws"

Supported == format \in {"pdf", "word", "markdown"}

Settled(g) == g \in DOMAIN tasks /\ tasks[g].pc \in {"fulfilled", "rejected"}

Unsettled == {g \in DOMAIN tasks : ~Settled(g)}

\* The single export of report g was called.
Attempted(g) == g \in DOMAIN tasks /\ tasks[g].renderer # "none"

ExportFailed == {g \in DOMAIN tasks : tasks[g].outcome = "fail"}

ExportSucceeded == {g \in DOMAIN tasks : tasks[g].outcome = "ok"}

EntriesFor(id) == {k \in 1..Len(result.errors) : result.errors[k].reportId = id}

ErrorCallsFor(id) == {k \in 1..Len(onErrorCalls) : onErrorCalls[k].reportId = id}

\* Task g has left its mark in the result.
Recorded(g) == tasks[g].counted \/ EntriesFor(tasks[g].report._id) # {}

TypeOK ==
  /\ pc \in {"for", "map", "await", "done", "rejected"}
  /\ result.successful \in Nat /\ result.failed \in Nat
  /\ DOMAIN tasks \subseteq 0..(Len(reports) - 1)


\* ---- properties of batchExport ------------------------------------------

\* C1: for batchSize >= 1 and callbacks that return normally, the result that
\* batchExport returns satisfies successful + failed = reports.length, whatever
\* the delay and whichever exports failed.
C1_CountsAddUp ==
  (pc = "done" /\ batchSize >= 1 /\ CallbacksReturn)
    => result.successful + result.failed = Len(reports)

C1_Witness ==
  /\ pc = "done" /\ batchSize = 1 /\ Len(reports) = 2 /\ delayBetweenExports > 0
  /\ CallbacksReturn
  /\ result.successful = 1 /\ result.failed = 1

C4_BoundedConcurrency ==
  batchSize >= 1 => Cardinality(Unsettled) <= batchSize

\* the bound is met: the one task of the first chunk in flight, a report waiting
C4_Witness ==
  /\ batchSize = 1 /\ N = 2
  /\ Unsettled = {0}
  /\ tasks[0].pc = "exporting"

\* C5: while a task of a later chunk exists, every report of every earlier chunk
\* has a task that settled and left its success or failure in the result.
C5_ChunksInSequence ==
  \A h \in DOMAIN tasks : \A c \in 1..Len(chunks) :
    c < tasks[h].chunk =>
      \A k \in 1..Len(chunks[c]) :
        \E g \in DOMAIN tasks :
          /\ tasks[g].report = chunks[c][k]
          /\ tasks[g].chunk = c
          /\ Settled(g)
          /\ Recorded(g)

\* the task of the second chunk has just been created
C5_Witness ==
  /\ batchSize = 1 /\ N = 2 /\ Len(chunks) = 2
  /\ 1 \in DOMAIN tasks /\ tasks[1].chunk = 2 /\ tasks[1].pc = "timer"
  /\ tasks[0].outcome = "fail" /\ tasks[0].pc = "fulfilled"

\* C6: for batchSize >= 1 the loop cuts the list into consecutive chunks in input
\* order, chunk c holding the reports from (c-1)*batchSize up to c*batchSize
\* (the last one up to the end of the list); it forms ceil(N / batchSize) chunks,
\* 12 reports with batchSize 5 give chunks of 5, 5 and 2, and the task of every
\* report has globalIndex = start of its chunk + position in the chunk.
C6_Partition ==
  /\ \A c \in 1..Len(chunks) :
       /\ chunks[c] = SubSeq(reports, (c - 1) * batchSize + 1, Min(c * batchSize, N))
       /\ Len(chunks[c]) = (IF c * batchSize <= N THEN batchSize ELSE N - (c - 1) * batchSize)
       /\ Len(chunks[c]) >= 1
  /\ \A g \in DOMAIN tasks :
       LET c == tasks[g].chunk
       IN /\ tasks[g].report = reports[g + 1]
          /\ \E pos \in 0..(Len(chunks[c]) - 1) :
               /\ g = (c - 1) * batchSize + pos
               /\ chunks[c][pos + 1] = tasks[g].report
  /\ pc = "done" =>
       /\ Len(chunks) = (N + batchSize - 1) \div batchSize
       /\ DOMAIN tasks = Indices
       /\ (N = 12 /\ batchSize = 5) => [c \in 1..Len(chunks) |-> Len(chunks[c])] = <<5, 5, 2>>

C6_Witness ==
  /\ pc = "done" /\ N = 12 /\ batchSize = 5
  /\ Len(chunks) = 3 /\ Len(chunks[3]) = 2
  /\ 11 \in DOMAIN tasks /\ tasks[11].chunk = 3

\* C7: for batchSize >= 1 and callbacks that return normally, batchExport never
\* rejects; it returns, each export call settling; and it returns only
\* when every report's task has settled, with the counts and the error list of
\* all of them, also when every export failed.
C7_AlwaysReturnsSummary ==
  (batchSize >= 1 /\ CallbacksReturn) =>
    /\ [](pc # "rejected")
    /\ <>(pc = "done")
    /\ [](pc = "done" =>
            /\ \A g \in Indices : Settled(g)
            /\ result.successful = Cardinality({g \in DOMAIN tasks : tasks[g].counted})
            /\ result.failed = Cardinality({g \in DOMAIN tasks : tasks[g].error # NoError})
            /\ Len(result.errors) = result.failed)

\* every export of a batch of two chunks failed, and the batch returned
C7_Witness ==
  /\ pc = "done" /\ batchSize = 1 /\ N = 2 /\ format = "pdf" /\ CallbacksReturn
  /\ ExportFailed = Indices
  /\ result.failed = 2 /\ result.successful = 0

\* C8: for the report at global index g, onProgress(g, N, title) has been called
\* by the time its export is called; onProgress(g + 1, N, title) is called only
\* once the export has succeeded and result.successful has been incremented for
\* it, and is called for every report that completes successfully; a report whose
\* export failed never gets it.
C8_ProgressOrder ==
  /\ \A g \in DOMAIN tasks :
       LET starting == <<g, N, reports[g + 1].title>>
           finished == <<g + 1, N, reports[g + 1].title>>
       IN /\ (onProgress # "absent" /\ tasks[g].renderer # "none")
               => starting \in onProgressCalls
          /\ finished \in onProgressCalls
               => (tasks[g].outcome = "ok" /\ tasks[g].counted)
          /\ tasks[g].outcome = "fail" => finished \notin onProgressCalls
          /\ (onProgress # "absent" /\ tasks[g].outcome = "ok" /\ tasks[g].pc = "fulfilled"
                 /\ tasks[g].error = NoError)
               => finished \in onProgressCalls
  /\ Cardinality({g \in DOMAIN tasks : <<g + 1, N, reports[g + 1].title>> \in onProgressCalls})
       <= result.successful

\* report 1 got both notifications, report 0 failed and got the starting one only
C8_Witness ==
  /\ N = 2 /\ onProgress = "returns" /\ format = "word"
  /\ {0, 1} \subseteq DOMAIN tasks
  /\ tasks[0].outcome = "fail" /\ tasks[1].outcome = "ok"
  /\ <<0, 2, reports[1].title>> \in onProgressCalls
  /\ <<1, 2, reports[1].title>> \notin onProgressCalls
  /\ <<1, 2, reports[2].title>> \in onProgressCalls
  /\ <<2, 2, reports[2].title>> \in onProgressCalls

\* C9: a task waits on a timer exactly when its global index is > 0 and
\* delayBetweenExports > 0; such a task goes on to its starting notification
\* only when delayBetweenExports time units have passed since batch.map created
\* it, and any other task goes on with no time passed at all.
C9_Pacing ==
  \A g \in DOMAIN tasks :
    /\ tasks[g].delayed = (g > 0 /\ delayBetweenExports > 0)
    /\ tasks[g].pc # "timer" =>
         IF g > 0 /\ delayBetweenExports > 0
           THEN tasks[g].age >= delayBetweenExports
           ELSE tasks[g].age = 0

\* reports 0 and 1 of one chunk: 0 went on at once, 1 after the delay
C9_Witness ==
  /\ batchSize = 2 /\ delayBetweenExports = 1 /\ onProgress = "returns"
  /\ {0, 1} \subseteq DOMAIN tasks
  /\ ~tasks[0].delayed /\ tasks[0].age = 0
  /\ tasks[1].delayed /\ tasks[1].age = 1
  /\ <<1, N, reports[2].title>> \in onProgressCalls

C11_GenericMessage ==
  \A g \in DOMAIN tasks :
    tasks[g].outcome = "fail" =>
      LET generic == CASE tasks[g].renderer = "pdf" -> "Failed to export PDF. Please try again."
                       [] tasks[g].renderer = "word" -> "Failed to export Word document. Please try again."
                       [] tasks[g].renderer = "markdown" -> "Failed to export Markdown. Please try again."
                       [] OTHER -> "none"
          entries == EntriesFor(tasks[g].report._id)
      IN /\ tasks[g].cause.isError /\ tasks[g].cause.message # "none"
         /\ tasks[g].error.isError
         /\ tasks[g].error.message = generic
         /\ tasks[g].error.message # tasks[g].cause.message
         /\ tasks[g].pc # "catch" => entries # {}
         /\ \A k \in entries :
              /\ result.errors[k].error = generic
              /\ result.errors[k].error # tasks[g].cause.message

\* a Word export failed and its entry in result.errors carries the generic message
C11_Witness ==
  /\ pc = "done" /\ format = "word" /\ N = 2
  /\ tasks[1].outcome = "fail" /\ tasks[1].cause = Error("Invalid string length")
  /\ tasks[0].outcome = "ok"
  /\ result.errors = <<[reportId |-> reports[2]._id,
                        error |-> "Failed to export Word document. Please try again."]>>

\* C12: for a canvas of positive width, with H the scaled image height
\* canvas.height * 210 / canvas.width, every page of the document holds the
\* image once, page j (from 0) at vertical offset -j * 295, and the document
\* that is saved has floor(H / 295) + 1 pages: the pages cover the whole
\* image, and an H that is exactly k * 295 gives k + 1 pages.
C12_PageCount ==
  /\ \A j \in 0..(Len(pdf) - 1) : pdf[j + 1] = <<Mm(-j * 295)>>
  /\ step \in {"save", "saved"} =>
       /\ Len(pdf) = ((canvas.height * 210) \div (295 * canvas.width)) + 1
       /\ Len(pdf) * 295 * canvas.width > canvas.height * 210
       /\ \A k \in 0..MaxCanvasHeight :
            canvas.height * 210 = k * 295 * canvas.width => Len(pdf) = k + 1

\* a canvas of 42 by 118 scales to a height of 590 = 2 * 295: three pages
C12_Witness ==
  /\ step = "saved" /\ canvas = [width |-> 42, height |-> 118]
  /\ pdf = << <<0>>, <<-295 * 42>>, <<-590 * 42>> >>

\* str contains pattern
Contains(str, pattern) ==
  \E k \in 0..(Len(str) - Len(pattern)) : SubSeq(str, k + 1, k + Len(pattern)) = pattern

\* C13: substitution is single pass: when the content holds {a} and no {b},
\* and the value of variable a holds {b} (the value of b holding no {b}), the
\* {b} that a's value brings in is still in the output, whether a comes before
\* or after b in the list.
C13_SinglePass ==
  step = "returned" =>
    \A ka, kb \in DOMAIN variables :
      LET a == variables[ka]
          b == variables[kb]
      IN (/\ Len(variables) = 2 /\ a.name # b.name
          /\ Contains(content, Placeholder(a.name))
          /\ ~Contains(content, Placeholder(b.name))
          /\ Contains(a.defaultValue, Placeholder(b.name))
          /\ ~Contains(b.defaultValue, Placeholder(b.name)))
           => Contains(replaced, Placeholder(b.name))

\* ---- properties of the renderers ------------------------------------------
\* The fixed sections in their order: heading, toggle of the template, field.
FixedOrder ==
  <<[heading |-> "Executive Summary", toggle |-> "showExecutiveSummary", field |-> "summary"],
    [heading |-> "Key Highlights", toggle |-> "showHighlights", field |-> "highlights"],
    [heading |-> "Detailed Report", toggle |-> "showDetailedContent", field |-> "content"],
    [heading |-> "Recommendations & Next Steps", toggle |-> "showRecommendations",
     field |-> "suggestions"]>>

IsFixed(heading) == \E k \in 1..4 : FixedOrder[k].heading = heading

\* The fixed sections the template asks for: all four when there is none.
IsToggled(section) == template = Undefined \/ template[2].sections[section.toggle]

Toggled == SelectSeq(FixedOrder, IsToggled)

IsFixedHeadingLine(line) == line[1] = "##" /\ IsFixed(line[2])

IsFixedHeadingParagraph(paragraph) == paragraph[1] = "HEADING_1" /\ IsFixed(paragraph[2])

CustomSections == IF template = Undefined THEN <<>> ELSE template[2].sections.customSections

\* The lines of the output that are the heading of custom section c.
LinesOf(c) == {k \in 1..Len(markdown) : markdown[k] = <<"##", c.title>>}

FixedLines == {k \in 1..Len(markdown) : IsFixedHeadingLine(markdown[k])}

\* C14: the Markdown output holds the heading of exactly the fixed sections
\* whose toggle is true (all four without a template), in the order Executive
\* Summary, Key Highlights, Detailed Report, Recommendations & Next Steps, each
\* followed by the report field of that section.
C14_FixedSections ==
  step = "markdown" =>
    LET found == SelectSeq(markdown, IsFixedHeadingLine)
    IN /\ Len(found) = Len(Toggled)
       /\ \A k \in 1..Len(found) : found[k] = <<"##", Toggled[k].heading>>
       /\ \A k \in 1..4 : \A n \in 1..Len(markdown) :
            markdown[n] = <<"##", FixedOrder[k].heading>>
              => /\ n + 2 <= Len(markdown)
                 /\ markdown[n + 2] = <<"text", singleReport[FixedOrder[k].field]>>
       /\ template = Undefined => Len(found) = 4

\* highlights and recommendations only, in that order
C14_Witness ==
  /\ step = "markdown" /\ template # Undefined
  /\ ~template[2].sections.showExecutiveSummary /\ template[2].sections.showHighlights
  /\ ~template[2].sections.showDetailedContent /\ template[2].sections.showRecommendations
  /\ SelectSeq(markdown, IsFixedHeadingLine)
       = << <<"##", "Key Highlights">>, <<"##", "Recommendations & Next Steps">> >>

\* C15: in the templated Markdown output every custom section appears once,
\* after every fixed section that was emitted and before the footer, and the
\* custom sections appear in ascending order of their order field, wherever they
\* stand in the template's list.
C15_CustomSections ==
  (step = "markdown" /\ template # Undefined) =>
    /\ \A k \in 1..Len(CustomSections) :
         LET c == CustomSections[k]
         IN /\ Cardinality(LinesOf(c)) = 1
            /\ \A n \in LinesOf(c) :
                 /\ \A f \in FixedLines : f < n
                 /\ n + 2 < Len(markdown) - 1
                 /\ markdown[n + 2] = <<"text", c.content>>
    /\ markdown[Len(markdown) - 1] = <<"---">>
    /\ \A k1, k2 \in 1..Len(CustomSections) :
         \A n1 \in LinesOf(CustomSections[k1]) : \A n2 \in LinesOf(CustomSections[k2]) :
           n1 < n2 => CustomSections[k1].order <= CustomSections[k2].order

\* the section listed second, with order 1, is rendered before the one listed
\* first, with order 2, and both after the two fixed sections
C15_Witness ==
  /\ step = "markdown" /\ template # Undefined
  /\ Len(CustomSections) = 2 /\ Cardinality(FixedLines) = 2
  /\ \E n1, n2 \in 1..Len(markdown) :
       /\ markdown[n1] = <<"##", CustomSection(2, 1).title>>
       /\ markdown[n2] = <<"##", CustomSection(1, 2).title>>
       /\ markdown[n1 + 2] = <<"text", CustomSection(2, 1).content>>
       /\ n1 < n2
       /\ \A f \in FixedLines : f < n1

\* C16: rendering is pure: no step changes the report or the template, so the
\* sequence stored in template.sections.customSections is after the call what
\* it was before.
C16_Pure == [][template' = template /\ singleReport' = singleReport]_vars

\* C17: the children of the Word document hold a heading and a body paragraph
\* for exactly the fixed sections whose toggle is true (all four without a
\* template), in the order summary, highlights, content, recommendations, and
\* no paragraph for a custom section of the template.
C17_WordSections ==
  step = "word" =>
    LET found == SelectSeq(children, IsFixedHeadingParagraph)
        headings == {n \in 1..Len(children) : children[n][1] = "HEADING_1"}
    IN /\ Len(found) = Len(Toggled)
       /\ \A k \in 1..Len(found) : found[k] = <<"HEADING_1", Toggled[k].heading>>
       /\ \A n \in headings :
            /\ IsFixed(children[n][2])
            /\ n + 1 <= Len(children)
            /\ \E k \in 1..4 :
                 /\ children[n][2] = FixedOrder[k].heading
                 /\ children[n + 1] = <<"paragraph", singleReport[FixedOrder[k].field]>>
       /\ template = Undefined => Len(found) = 4
       /\ \A k \in 1..Len(CustomSections) : \A n \in 1..Len(children) :
            /\ children[n] # <<"HEADING_1", CustomSections[k].title>>
            /\ children[n] # <<"paragraph", CustomSections[k].content>>
       /\ Len(children) = 2 + (IF singleReport.period_start # Undefined THEN 1 ELSE 0)
                            + 2 * Len(Toggled)

\* a template with two custom sections and the summary and the content only
C17_Witness ==
  /\ step = "word" /\ template # Undefined
  /\ Len(CustomSections) = 2
  /\ SelectSeq(children, IsFixedHeadingParagraph)
       = << <<"HEADING_1", "Executive Summary">>, <<"HEADING_1", "Detailed Report">> >>
  /\ Len(children) = 6

\* ---- properties of exportCombinedReport -----------------------------------
Built == step \in {"built", "exported"}

\* What the highlights of one report contribute: the entries of the array they
\* parse to, the parsed value itself when it is no array, and the raw string as
\* one entry when they do not parse.
Contribution(r) ==
  LET parsed == JsonParse(r.highlights)
  IN IF ~parsed.ok THEN << <<"raw", r.highlights>> >>
     ELSE IF parsed.value[1] = "array" THEN parsed.value[2]
     ELSE <<parsed.value>>

RECURSIVE Contributions(_)
Contributions(rs) ==
  IF rs = <<>> THEN <<>>
  ELSE Contributions(SubSeq(rs, 1, Len(rs) - 1)) \o Contribution(rs[Len(rs)])

NonFalsy == SelectSeq(Contributions(reports), Truthy)

\* C18: the combined highlights are the JSON text of an array of at most 10
\* entries: the first 10 non-falsy entries, in input order, of the reports'
\* contributions put one after the other.
C18_CombinedHighlights ==
  Built =>
    LET out == JsonParse(combinedReport.highlights)
    IN /\ out.ok
       /\ out.value[1] = "array"
       /\ Len(out.value[2]) <= 10
       /\ Len(out.value[2]) = Min(10, Len(NonFalsy))
       /\ \A k \in 1..Len(out.value[2]) : out.value[2][k] = NonFalsy[k]

\* two reports of six highlights each: the first ten of the twelve are kept
C18_Witness ==
  /\ step = "built" /\ Len(reports) = 2
  /\ Len(NonFalsy) = 12
  /\ JsonParse(combinedReport.highlights).value[2]
       = [k \in 1..10 |-> <<"string", "h" \o ToString(IF k <= 6 THEN k ELSE k - 6)>>]

\* the timestamp a report stands for at the start and at the end of the period
StartOf(r) == IF r.period_start # Undefined THEN r.period_start[2] ELSE r.generated_at[2]

EndOf(r) == IF r.period_end # Undefined THEN r.period_end[2] ELSE r.generated_at[2]

\* C19: for a non-empty list the combined period_start is the time string of
\* the smallest timestamp among each report's period_start (generated_at where
\* that is absent), and period_end that of the largest among each report's
\* period_end (generated_at where absent).
C19_CombinedPeriod ==
  (Built /\ Len(reports) > 0) =>
    /\ combinedReport.period_start[1] = "iso"
    /\ \E k \in 1..Len(reports) : combinedReport.period_start[2] = StartOf(reports[k])
    /\ \A k \in 1..Len(reports) : combinedReport.period_start[2] <= StartOf(reports[k])
    /\ combinedReport.period_end[1] = "iso"
    /\ \E k \in 1..Len(reports) : combinedReport.period_end[2] = EndOf(reports[k])
    /\ \A k \in 1..Len(reports) : combinedReport.period_end[2] >= EndOf(reports[k])

\* the earliest start is the generated_at of a report without period_start, the
\* latest end the period_end of the other report
C19_Witness ==
  /\ step = "built" /\ Len(reports) = 2
  /\ reports[1].period_start = Undefined /\ reports[1].generated_at = <<"date", 0>>
  /\ reports[2].period_start = <<"date", 1>> /\ reports[2].generated_at = <<"date", 0>>
  /\ reports[2].period_end = <<"date", 1>> /\ reports[1].period_end = <<"date", 0>>
  /\ combinedReport.period_start = <<"iso", 0>>
  /\ combinedReport.period_end = <<"iso", 1>>

\* C20: combining the empty list does not throw while the combined report is
\* built, and the report built has an empty content, a summary that states 0
\* reports, the empty JSON array as highlights, and no period_start and no
\* period_end.
C20_EmptyList ==
  reports = <<>> =>
    /\ step # "rejected"
    /\ Built =>
         /\ combinedReport.content = <<>>
         /\ combinedReport.summary = <<"This combined report includes", 0, "individual reports">>
         /\ combinedReport.highlights = << <<"[">>, <<"]">> >>
         /\ combinedReport.period_start = Undefined
         /\ combinedReport.period_end = Undefined

C20_Witness ==
  /\ reports = <<>> /\ step = "exported"
  /\ combinedReport.report_type = "combined"
  /\ combinedReport.period_start = Undefined

\* ---- validation of the list handed to a batch export ------------------------
\* A title or content that is missing or holds white space only.
Blank(s) == s = Undefined \/ \A k \in 1..Len(s) : s[k] \in Whitespace

BlankTitles == {k \in 1..N : Blank(reports[k].title)}

BlankContents == {k \in 1..N : Blank(reports[k].content)}

Indicator(b) == IF b THEN 1 ELSE 0

\* C21: validateReportsForExport returns (it has no path that throws) a list of
\* Indicator(N = 0) + Indicator(N > 50) + (reports with a blank title) +
\* (reports with a blank content) messages; the list is empty exactly when
\* 1 <= N <= 50 and every report has a non-blank title and content.
C21_ValidationCount ==
  /\ step \in {"call", "returned"}
  /\ step = "returned" =>
       /\ Len(errors) = Indicator(N = 0) + Indicator(N > 50)
                        + Cardinality(BlankTitles) + Cardinality(BlankContents)
       /\ errors = <<>> <=> /\ 1 <= N /\ N <= 50
                            /\ BlankTitles = {} /\ BlankContents = {}
       /\ (N = 51 /\ BlankTitles = {} /\ BlankContents = {}) => Len(errors) = 1
       /\ N = 0 => Len(errors) = 1
       /\ \A k \in BlankTitles \cap BlankContents :
            Cardinality({e \in 1..Len(errors) :
                           \/ errors[e] = <<"Report has no title", k>>
                           \/ /\ errors[e][1] = "Report has no content"
                              /\ e > 1
                              /\ errors[e - 1] = <<"Report has no title", k>>}) = 2

\* 51 valid reports were validated: the one message is the one about the limit
C21_Witness ==
  /\ step = "returned" /\ N = 51
  /\ BlankTitles = {} /\ BlankContents = {}
  /\ Len(errors) = 1

\* ---- the name of the downloaded file ---------------------------------------
\* The export that has saved a file, and the title it was given.
SavedFormat ==
  CASE step = "saved" -> "pdf"
    [] step = "word" -> "word"
    [] step = "markdown" -> "markdown"
    [] OTHER -> "none"

Stem == SubSeq(filename, 1, Len(singleReport.title))

Suffix == SubSeq(filename, Len(singleReport.title) + 1, Len(filename))

\* C22: the file is named after the title with every character outside a-z,
\* A-Z, 0-9 replaced by one underscore (the stem is as long as the title), in
\* lower case, followed by the extension of the format; "Q1 Review!" gives the
\* stem q1_review_ in all three formats.
C22_Filename ==
  SavedFormat # "none" =>
    LET title == singleReport.title
    IN  /\ Len(filename) >= Len(title)
        /\ \A k \in 1..Len(title) :
             \/ /\ title[k] \in {LowerCase[j] : j \in 1..26} \cup Digits
                /\ Stem[k] = title[k]
             \/ \E j \in 1..26 : title[k] = UpperCase[j] /\ Stem[k] = LowerCase[j]
             \/ /\ title[k] \notin AsciiLetters \cup Digits
                /\ Stem[k] = "_"
        /\ Suffix = CASE SavedFormat = "pdf" -> <<".", "p", "d", "f">>
                      [] SavedFormat = "word" -> <<".", "d", "o", "c", "x">>
                      [] SavedFormat = "markdown" -> <<".", "m", "d">>
        /\ title = SampleTitle =>
             Stem = <<"q", "1", "_", "r", "e", "v", "i", "e", "w", "_">>

\* the Word export of "Q1 Review!" has saved q1_review_.docx
C22_Witness ==
  /\ step = "word"
  /\ singleReport.title = SampleTitle
  /\ filename = <<"q", "1", "_", "r", "e", "v", "i", "e", "w", "_", ".", "d", "o", "c", "x">>

\* ---- properties of the export dialog -----------------------------------------
\* C23: a handleExport that finds a selected template whose format differs from
\* the chosen format invokes no renderer, ends with exportStatus = 'error' and
\* isExporting = false, and schedules no automatic close of the dialog.
C23_MismatchBlocks ==
  [][(/\ exportDialog'.exports = exportDialog.exports + 1
      /\ exportDialog.selectedTemplate # Null
      /\ exportDialog.selectedTemplate[2] # exportDialog.selectedFormat)
     => /\ exportDialog'.rendererCalls = exportDialog.rendererCalls
        /\ exportDialog'.pc = "idle"
        /\ exportDialog'.exportStatus = "error"
        /\ exportDialog'.isExporting = FALSE
        /\ exportDialog'.timers = exportDialog.timers
        /\ exportDialog'.open = exportDialog.open]_vars

\* a Word template was selected for a PDF export: the export has failed with no
\* renderer invoked and the dialog stays open
C23_Witness ==
  /\ exportDialog.exports = 1
  /\ exportDialog.selectedFormat = "pdf"
  /\ exportDialog.selectedTemplate = DialogTemplate("word")
  /\ exportDialog.rendererCalls = <<>>
  /\ exportDialog.exportStatus = "error"
  /\ ~exportDialog.isExporting
  /\ exportDialog.timers = 0
  /\ exportDialog.open

\* ---- the spacing of the Word title -------------------------------------------
\* C24: with a template, the title paragraph of the Word document has spacing
\* after = sectionGap * 10 for every section gap, 0 included; without a template
\* it is the default 400.
C24_TitleSpacing ==
  step = "word" =>
    IF template # Undefined
      THEN children[1] = <<"TITLE", singleReport.title,
                           <<"number", template[2].styling.spacing.sectionGap * 10>> >>
      ELSE children[1] = <<"TITLE", singleReport.title, <<"number", 400>> >>

\* ---- properties of batchExport: pending exports, callbacks that throw ---------
\* The export call of report g is pending.
Pending(g) == g \in DOMAIN tasks /\ tasks[g].pc = "exporting"

\* The task of report g is over: its promise is fulfilled or rejected.
TaskOver(g) == g \in DOMAIN tasks /\ tasks[g].pc \in {"fulfilled", "rejected"}

\* C25: while the export call of one report of a chunk is pending, batchExport
\* has not returned and no task of a later chunk has been started, whatever the
\* other tasks of the chunk have done; so an export call that never settles
\* keeps batchExport from returning and every later chunk from starting.
C25_PendingBlocks ==
  \A g \in Indices :
    Pending(g) =>
      /\ pc # "done"
      /\ \A h \in DOMAIN tasks : tasks[h].chunk <= tasks[g].chunk
      /\ \A h \in Indices : h >= i + Len(batch) => h \notin DOMAIN tasks

\* three reports in chunks of two: the second report is exported and its task is
\* over, the first export is still pending, and the third report has no task
C25_Witness ==
  /\ N = 3 /\ batchSize = 2
  /\ Pending(0)
  /\ TaskOver(1)
  /\ pc = "await"
  /\ 2 \notin DOMAIN tasks

\* C26: no report is counted twice: a report that incremented successful has no
\* entry in errors (and did not increment failed), also when onProgress throws.
C26_CountedOnce ==
  \A g \in DOMAIN tasks :
    ~(tasks[g].counted /\ EntriesFor(tasks[g].report._id) # {})

\* C27: an exception thrown by onError does not escape batchExport: the promise
\* of batchExport is never rejected.
C27_OnErrorContained == onError = "throws" => pc # "rejected"

\* C28: for every list and every batchSize that does not take i below 0
\* (0 included), batchExport eventually returns when every single export
\* settles and the callbacks of the caller return.
C28_Terminates == (CallbacksReturn /\ batchSize >= 0) => <>(pc = "done")

\* The export of report h is over: it succeeded or failed.
ExportOver(h) ==
  /\ h \in DOMAIN tasks
  /\ tasks[h].pc \notin {"timer", "onProgressStart", "switch", "exporting"}

\* C29: once the finished notification onProgress(k, N, title) has been
\* delivered, the export of every report of index below k is over.
C29_FinishedPrefix ==
  \A g \in Indices :
    <<g + 1, N, reports[g + 1].title>> \in onProgressCalls =>
      \A h \in 0..g : ExportOver(h)

\* ---- properties of exportToPDF: the temporary element ---------------------------
\* C30: once an exportToPDF called without an element has settled, fulfilled or
\* rejected, the temporary element is no longer a child of document.body.
C30_TempDivRemoved ==
  (element = Undefined /\ step \in {"saved", "rejected"}) => TempDiv \notin documentBody

====
